---- MODULE Spec2Model ----
(***************************************************************************)
(* Client-side interaction protocol of brandai_backend/static/script.js:   *)
(* file intake, the /evaluate request/response handler, the critique       *)
(* renderer, the /regenerate request/response handler and the image swap.  *)
(*                                                                         *)
(* The page is single-threaded: every action below is one run-to-          *)
(* completion piece of a callback, i.e. the code between two awaits.       *)
(* The drag-over highlight class of the upload area (dragover, dragleave   *)
(* and the first statement of drop) touches nothing else and is left out.  *)
(* Scores are held in thousandths (840 stands for 0.84).  JavaScript       *)
(* values that may be undefined, null or a string are records              *)
(* [kind, str].                                                            *)
(***************************************************************************)
EXTENDS Integers, Sequences, FiniteSets, TLC

\* ------------------------------------------------------------------ bounds
MaxInFlight == 2          \* pending requests tracked per endpoint
MaxRequests == 3
\* Scores are counted in thousandths, 0 .. MaxScore (1000 is the score 1.0)
MaxScore == 1000          \* requests issued in one behaviour, both endpoints together

\* ------------------------------------------------------- JavaScript values
Undefined == [kind |-> "undefined", str |-> ""]
Null == [kind |-> "null", str |-> ""]
Str(s) == [kind |-> "string", str |-> s]

\* JavaScript truthiness of an undefined / null / string value
Truthy(v) == v.kind = "string" /\ v.str # ""

\* String.prototype.startsWith
startsWith(s, prefix) ==
  /\ Len(s) >= Len(prefix)
  /\ SubSeq(s, 1, Len(prefix)) = prefix

\* Template-literal / textContent conversion of a value to text
TemplateText(v) == IF v.kind = "string" THEN v.str ELSE v.kind
TextContent(v) == IF v.kind = "string" THEN v.str ELSE ""

\* ---------------------------------------------------------------- inputs
NoFile == [name |-> "", type |-> "", present |-> FALSE]
Files ==
  { [name |-> "ad.png", type |-> "image/png", present |-> TRUE],
    [name |-> "notes.txt", type |-> "text/plain", present |-> TRUE],
    [name |-> "image", type |-> "image", present |-> TRUE] }

Statuses == {200, 404, 500}
ResponseOk(status) == status >= 200 /\ status <= 299

TransportMessages == {"Failed to fetch"}
ParseMessage == "Unexpected token < in JSON at position 0"

\* Bodies of a non-2xx response, once response.json() has resolved
ErrorBodies ==
  { [isNull |-> FALSE, detail |-> Undefined],
    [isNull |-> FALSE, detail |-> Str("")],
    [isNull |-> FALSE, detail |-> Str("vision service unavailable")],
    [isNull |-> TRUE, detail |-> Undefined] }

Dim(score, feedback) == [present |-> TRUE, score |-> score, feedback |-> feedback]
NoDim == [present |-> FALSE, score |-> 0, feedback |-> ""]
NoScorecard ==
  [present |-> FALSE, overall_score |-> 0, dims |-> <<NoDim, NoDim, NoDim, NoDim>>,
   strengths |-> Undefined, items |-> <<>>]

\* Bodies of a 2xx /evaluate response, once response.json() has resolved
EvaluateBodies ==
  { [isNull |-> FALSE, brand_name |-> Str("Nike"), original_image |-> Str("data:a"),
     refinement_plan |-> Str("planA"),
     scorecard |-> [present |-> TRUE, overall_score |-> 840,
                    dims |-> <<Dim(850, "f1"), Dim(780, "f2"), Dim(820, "f3"), Dim(900, "f4")>>,
                    strengths |-> Str("array"), items |-> <<"bold logo", "clear CTA">>]],
    [isNull |-> FALSE, brand_name |-> Str("Apple"), original_image |-> Str("data:b"),
     refinement_plan |-> Str("use \"bold\" red\\blue"),
     scorecard |-> [present |-> TRUE, overall_score |-> 500,
                    dims |-> <<Dim(800, "g1"), Dim(799, "g2"), Dim(499, "g3"), Dim(5, "g4")>>,
                    strengths |-> Str("array"), items |-> <<>>]],
    [isNull |-> FALSE, brand_name |-> Undefined, original_image |-> Str("data:c"),
     refinement_plan |-> Str(""),
     scorecard |-> [present |-> TRUE, overall_score |-> 1000,
                    dims |-> <<Dim(0, "h1"), Dim(1000, "h2"), Dim(495, "h3"), Dim(794, "h4")>>,
                    strengths |-> Undefined, items |-> <<>>]],
    [isNull |-> FALSE, brand_name |-> Str("Nike"), original_image |-> Str("data:d"),
     refinement_plan |-> Str("planB"),
     scorecard |-> NoScorecard],
    [isNull |-> FALSE, brand_name |-> Str("Nike"), original_image |-> Str("data:e"),
     refinement_plan |-> Null,
     scorecard |-> [present |-> TRUE, overall_score |-> 640,
                    dims |-> <<Dim(850, "k1"), Dim(300, "k2"), NoDim, Dim(900, "k4")>>,
                    strengths |-> Str("array"), items |-> <<"bold logo">>]],
    [isNull |-> TRUE, brand_name |-> Undefined, original_image |-> Undefined,
     refinement_plan |-> Undefined,
     scorecard |-> NoScorecard] }

\* Bodies of a 2xx /regenerate response, once response.json() has resolved
RegenerateBodies ==
  { [isNull |-> FALSE, regenerated_image_url |-> Str("https://x/y.png")],
    [isNull |-> FALSE, regenerated_image_url |-> Str("https://x/z.png")],
    [isNull |-> FALSE, regenerated_image_url |-> Undefined],
    [isNull |-> TRUE, regenerated_image_url |-> Undefined] }

\* ------------------------------------------------------------------ JSON
RECURSIVE JSONQuoteFrom(_, _)
\* JSON.stringify of the characters i.. of a string: '"' and '\' are escaped
JSONQuoteFrom(s, i) ==
  IF i > Len(s) THEN ""
  ELSE LET c == SubSeq(s, i, i)
       IN (IF c = "\"" \/ c = "\\" THEN "\\" \o c ELSE c) \o JSONQuoteFrom(s, i + 1)

\* JSON.stringify({ refinement_plan: plan })
JSONStringify(plan) ==
  CASE plan.kind = "undefined" -> "{}"
    [] plan.kind = "null" -> "{\"refinement_plan\":null}"
    [] OTHER -> "{\"refinement_plan\":\"" \o JSONQuoteFrom(plan.str, 1) \o "\"}"

RECURSIVE JSONUnquoteFrom(_, _)
\* the characters i.. of a quoted JSON string, with the escapes undone
JSONUnquoteFrom(s, i) ==
  IF i > Len(s) THEN ""
  ELSE IF SubSeq(s, i, i) = "\\" /\ i < Len(s)
       THEN SubSeq(s, i + 1, i + 1) \o JSONUnquoteFrom(s, i + 2)
       ELSE SubSeq(s, i, i) \o JSONUnquoteFrom(s, i + 1)

\* the refinement_plan member of a /regenerate request body, as the receiver
\* of the request decodes it
JSONParsePlan(body) ==
  LET key == "{\"refinement_plan\":"
      rest == SubSeq(body, Len(key) + 1, Len(body) - 1)
  IN IF ~startsWith(body, key) THEN Undefined
     ELSE IF rest = "null" THEN Null
     ELSE Str(JSONUnquoteFrom(SubSeq(rest, 2, Len(rest) - 1), 1))

\* -------------------------------------------------------------- rendering
\* getScoreColor with strict comparisons at the two thresholds
getScoreColor_Strict(score) ==
  IF score > 800 THEN "var(--success-color)"
  ELSE IF score > 500 THEN "var(--warning-color)"
  ELSE "var(--danger-color)"

\* getScoreColor
getScoreColor(score) ==
  IF score >= 800 THEN "var(--success-color)"
  ELSE IF score >= 500 THEN "var(--warning-color)"
  ELSE "var(--danger-color)"

\* (score * 100).toFixed(0)
toFixed0(score) == ToString((score + 5) \div 10)

Titles == <<"Brand Alignment", "Visual Quality", "Message Clarity", "Safety & Ethics">>
FallbackStrength == "No specific strengths identified."

\* one score card of the scorecard container
ScoreCard(title, details) ==
  [title |-> title, color |-> getScoreColor(details.score),
   badge |-> toFixed0(details.score), feedback |-> details.feedback]

\* index of the first dimension whose details are undefined, 0 when none is
FirstMissing(dims) ==
  IF \E i \in 1..4 : ~dims[i].present
  THEN CHOOSE i \in 1..4 : ~dims[i].present /\ \A j \in 1..(i - 1) : dims[j].present
  ELSE 0

\* the page as served, before any event
InitialDom ==
  [ fileName |-> "", submitDisabled |-> TRUE,
    resultsPlaceholder |-> "flex", placeholderTitle |-> "", placeholderText |-> "",
    resultsContent |-> "none", imagesSection |-> "none", loader |-> "none",
    regenerateButton |-> "none", regenerateDisabled |-> FALSE,
    regenLoader |-> "none", regenImage |-> "none", regenImageSrc |-> "",
    regenPlaceholder |-> "flex", originalImageSrc |-> "",
    resultsTitle |-> "", overallScore |-> "", overallScoreColor |-> "",
    scorecardContainer |-> <<>>, strengthsList |-> <<>>, refinementPlanText |-> "" ]

\* showLoadingState
showLoadingState(d) ==
  [d EXCEPT !.resultsPlaceholder = "none", !.resultsContent = "none",
            !.imagesSection = "none", !.loader = "flex",
            !.regenerateButton = "none"]

\* showErrorState
showErrorState(d, message) ==
  [d EXCEPT !.loader = "none", !.resultsPlaceholder = "flex",
            !.placeholderTitle = "Analysis Failed", !.placeholderText = message]

\* displayCritiqueResults lines 139-145: data is not read yet
RenderOpen(d) ==
  [d EXCEPT !.loader = "none", !.resultsPlaceholder = "none",
            !.imagesSection = "block", !.resultsContent = "block"]

\* lines 151-161 without the reset of the regenerated-image sub-area
RenderImages_KeepsRegenerated(d, data) ==
  [d EXCEPT !.originalImageSrc = TemplateText(data.original_image),
            !.resultsTitle = "Critique for " \o TemplateText(data.brand_name)]

\* displayCritiqueResults lines 151-161: images and title
RenderImages(d, data) ==
  [d EXCEPT !.originalImageSrc = TemplateText(data.original_image),
            !.regenImage = "none", !.regenPlaceholder = "flex",
            !.resultsTitle = "Critique for " \o TemplateText(data.brand_name)]

\* lines 162-169 without scorecardContainer.innerHTML = ''
RenderOverall_KeepsCards(d, sc) ==
  [d EXCEPT !.overallScore = toFixed0(sc.overall_score),
            !.overallScoreColor = getScoreColor(sc.overall_score)]

\* displayCritiqueResults lines 162-169: overall score, container cleared
RenderOverall(d, sc) ==
  [d EXCEPT !.overallScore = toFixed0(sc.overall_score),
            !.overallScoreColor = getScoreColor(sc.overall_score),
            !.scorecardContainer = <<>>]

\* displayCritiqueResults lines 177-192: the first n cards appended
RenderCards(d, sc, n) ==
  [d EXCEPT !.scorecardContainer =
     d.scorecardContainer \o [i \in 1..n |-> ScoreCard(Titles[i], sc.dims[i])]]

\* lines 194-205 without the fallback entry
RenderStrengths_NoFallback(d, sc) ==
  [d EXCEPT !.strengthsList = sc.items]

\* displayCritiqueResults lines 194-205
RenderStrengths(d, sc) ==
  [d EXCEPT !.strengthsList =
     IF Truthy(sc.strengths) /\ Len(sc.items) > 0 THEN sc.items
     ELSE <<FallbackStrength>>]

\* displayCritiqueResults lines 207-212
RenderPlanAndButton(d, data) ==
  [d EXCEPT !.refinementPlanText = TextContent(data.refinement_plan),
            !.regenerateButton = "block"]

\* displayCritiqueResults reading data.scorecard before lines 151-157 run, so
\* that a body without scorecard throws with the plan stored and the
\* regenerated image untouched
displayCritiqueResults_ThrowsBeforeImages(d, plan, data) ==
  LET sc == data.scorecard
      k == FirstMissing(sc.dims)
      d1 == RenderOpen(d)
      d2 == RenderImages(d1, data)
      d3 == RenderOverall(d2, sc)
  IN IF data.isNull
     THEN [dom |-> d1, plan |-> plan, threw |-> TRUE,
           message |-> "Cannot read properties of null (reading 'refinement_plan')"]
     ELSE IF ~sc.present
     THEN [dom |-> d1, plan |-> data.refinement_plan, threw |-> TRUE,
           message |-> "Cannot read properties of undefined (reading 'overall_score')"]
     ELSE IF k # 0
     THEN [dom |-> RenderCards(d3, sc, k - 1), plan |-> data.refinement_plan,
           threw |-> TRUE,
           message |-> "Cannot read properties of undefined (reading 'score')"]
     ELSE [dom |-> RenderPlanAndButton(RenderStrengths(RenderCards(d3, sc, 4), sc), data),
           plan |-> data.refinement_plan, threw |-> FALSE, message |-> ""]

\* displayCritiqueResults: the page and the retained plan it leaves, and the
\* TypeError it throws when the body lacks a member it dereferences
displayCritiqueResults(d, plan, data) ==
  LET sc == data.scorecard
      k == FirstMissing(sc.dims)
      d1 == RenderOpen(d)
      d2 == RenderImages(d1, data)
      d3 == RenderOverall(d2, sc)
  IN IF data.isNull
     THEN [dom |-> d1, plan |-> plan, threw |-> TRUE,
           message |-> "Cannot read properties of null (reading 'refinement_plan')"]
     ELSE IF ~sc.present
     THEN [dom |-> d2, plan |-> data.refinement_plan, threw |-> TRUE,
           message |-> "Cannot read properties of undefined (reading 'overall_score')"]
     ELSE IF k # 0
     THEN [dom |-> RenderCards(d3, sc, k - 1), plan |-> data.refinement_plan,
           threw |-> TRUE,
           message |-> "Cannot read properties of undefined (reading 'score')"]
     ELSE [dom |-> RenderPlanAndButton(RenderStrengths(RenderCards(d3, sc, 4), sc), data),
           plan |-> data.refinement_plan, threw |-> FALSE, message |-> ""]

\* displayRegeneratedImage without the assignment of the new source
displayRegeneratedImage_StaleSource(d, imageUrl) ==
  [d EXCEPT !.regenLoader = "none", !.regenPlaceholder = "none", !.regenImage = "block"]

\* displayRegeneratedImage
displayRegeneratedImage(d, imageUrl) ==
  [d EXCEPT !.regenLoader = "none", !.regenPlaceholder = "none",
            !.regenImageSrc = TemplateText(imageUrl), !.regenImage = "block"]

\* handleFile with a rejection branch that forgets to clear the candidate
handleFile_KeepsCandidate(d, file) ==
  IF file.present /\ startsWith(file.type, "image/")
  THEN [imageFile |-> file,
        dom |-> [d EXCEPT !.fileName = file.name, !.submitDisabled = FALSE]]
  ELSE [imageFile |-> file,
        dom |-> [d EXCEPT !.fileName = "Please select a valid image file.",
                          !.submitDisabled = TRUE]]

\* handleFile: the stored candidate and the page it leaves
handleFile(d, file) ==
  IF file.present /\ startsWith(file.type, "image/")
  THEN [imageFile |-> file,
        dom |-> [d EXCEPT !.fileName = file.name, !.submitDisabled = FALSE]]
  ELSE [imageFile |-> NoFile,
        dom |-> [d EXCEPT !.fileName = "Please select a valid image file.",
                          !.submitDisabled = TRUE]]

\* ------------------------------------------------------------------ state
VARIABLES
  imageFile,              \* let imageFile
  currentRefinementPlan,  \* let currentRefinementPlan
  dom,                    \* the elements the script reads and writes
  evalReq,                \* pending /evaluate calls: position of each handler run
  regenReq,               \* pending /regenerate calls, with the body each sent
  evaluateCalls,          \* number of fetch('/evaluate') calls made
  regenerateCalls,        \* number of fetch('/regenerate') calls made
  evalResult,             \* how the evaluation that settled last ended
  lastReceivedPlan,       \* refinement_plan of the last 2xx /evaluate body handed to the renderer
  rendered,               \* some critique has been rendered to the end
  alertShown,             \* text of the alert() the last callback raised, "" if none
  fileSelected,           \* the file the last callback took from a change or drop event, if any
  settled,                \* the response that ended an evaluation in the last callback, if any
  critique,               \* the CritiqueResult of the render call: the one rendered to the
                          \* end in the last callback, or the one a bare render is given
  regenSettled,           \* how a regeneration ended in the last callback, if one did
  imagePlan               \* the plan whose request produced the regenerated image's source

vars == <<imageFile, currentRefinementPlan, dom, evalReq, regenReq, evaluateCalls,
          regenerateCalls, evalResult, lastReceivedPlan, rendered, alertShown,
          fileSelected, settled, critique, regenSettled, imagePlan>>

Slots == 1..MaxInFlight
IdleEval == [pc |-> "idle", status |-> 0]
IdleRegen == [pc |-> "idle", status |-> 0, body |-> "", received |-> Null, overtaken |-> FALSE]
NoErrorBody == [isNull |-> FALSE, detail |-> Undefined]
NothingSettled ==
  [result |-> "none", via |-> "none", status |-> 0, parsed |-> FALSE, body |-> NoErrorBody]
NoCritique ==
  [isNull |-> TRUE, brand_name |-> Undefined, original_image |-> Undefined,
   refinement_plan |-> Undefined, scorecard |-> NoScorecard]
NothingRegenerated == [result |-> "none", url |-> Undefined]
RegenerationFailed == [result |-> "Failure", url |-> Undefined]
NoImagePlan == [plan |-> Undefined, overtaken |-> FALSE]

EvalPending == {i \in Slots : evalReq[i].pc # "idle"}
RegenPending == {i \in Slots : regenReq[i].pc # "idle"}
FreeSlot(req) == CHOOSE i \in Slots : req[i].pc = "idle" /\ \A j \in 1..(i - 1) : req[j].pc # "idle"

\* The state when the DOMContentLoaded callback has run.  Whether the markup
\* serves the submit button disabled is not fixed by the script: both are kept.
Init ==
  /\ imageFile = NoFile
  /\ currentRefinementPlan = Null
  /\ \E disabled \in BOOLEAN : dom = [InitialDom EXCEPT !.submitDisabled = disabled]
  /\ evalReq = [i \in Slots |-> IdleEval]
  /\ regenReq = [i \in Slots |-> IdleRegen]
  /\ evaluateCalls = 0
  /\ regenerateCalls = 0
  /\ evalResult = "none"
  /\ lastReceivedPlan = Null
  /\ rendered = FALSE
  /\ alertShown = ""
  /\ fileSelected = NoFile
  /\ settled = NothingSettled
  /\ critique = NoCritique
  /\ regenSettled = NothingRegenerated
  /\ imagePlan = NoImagePlan

\* ------------------------------------------------------------ file intake
\* imageUpload 'change' listener; files[0] is undefined when nothing was chosen
PickerChange ==
  \E file \in Files \cup {NoFile} :
    /\ imageFile' = IF file.present THEN handleFile(dom, file).imageFile ELSE imageFile
    /\ dom' = IF file.present THEN handleFile(dom, file).dom ELSE dom
    /\ fileSelected' = file
    /\ alertShown' = ""
    /\ settled' = NothingSettled
    /\ critique' = NoCritique
    /\ regenSettled' = NothingRegenerated
    /\ UNCHANGED <<currentRefinementPlan, evalReq, regenReq, evaluateCalls,
                   regenerateCalls, evalResult, lastReceivedPlan, rendered, imagePlan>>

\* uploadArea 'drop' listener; dataTransfer.files[0] is undefined when the
\* drop carries no file
Drop ==
  \E file \in Files \cup {NoFile} :
    /\ imageFile' = IF file.present THEN handleFile(dom, file).imageFile ELSE imageFile
    /\ dom' = IF file.present THEN handleFile(dom, file).dom ELSE dom
    /\ fileSelected' = file
    /\ alertShown' = ""
    /\ settled' = NothingSettled
    /\ critique' = NoCritique
    /\ regenSettled' = NothingRegenerated
    /\ UNCHANGED <<currentRefinementPlan, evalReq, regenReq, evaluateCalls,
                   regenerateCalls, evalResult, lastReceivedPlan, rendered, imagePlan>>

\* ------------------------------------------------------------- evaluation
EvaluationPrefix == "An error occurred during evaluation: "
SubmitPrompt == "Please select an image first."

\* new Error(errorData.detail || `HTTP error! Status: ${response.status}`),
\* or the TypeError of reading .detail of null
ErrorMessage(status, errorData) ==
  IF errorData.isNull THEN "Cannot read properties of null (reading 'detail')"
  ELSE IF Truthy(errorData.detail) THEN errorData.detail.str
  ELSE "HTTP error! Status: " \o ToString(status)

\* a submit handler without its guard
SubmitRefused_Never(file) == FALSE

\* the guard of the submit handler: !imageFile
SubmitRefused(file) == ~file.present

\* submitButton 'click' listener up to the first await; a disabled button
\* dispatches no click
SubmitClick ==
  /\ ~dom.submitDisabled
  /\ IF SubmitRefused(imageFile)
     THEN /\ alertShown' = SubmitPrompt
          /\ UNCHANGED <<dom, evalReq, evaluateCalls>>
     ELSE /\ evaluateCalls + regenerateCalls < MaxRequests
          /\ \E i \in Slots : evalReq[i].pc = "idle"
          /\ dom' = showLoadingState(dom)
          /\ evalReq' = [evalReq EXCEPT ![FreeSlot(evalReq)] = [pc |-> "fetch", status |-> 0]]
          /\ evaluateCalls' = evaluateCalls + 1
          /\ alertShown' = ""
  /\ fileSelected' = NoFile
  /\ settled' = NothingSettled
  /\ critique' = NoCritique
  /\ regenSettled' = NothingRegenerated
  /\ UNCHANGED <<imageFile, currentRefinementPlan, regenReq, regenerateCalls,
                 evalResult, lastReceivedPlan, rendered, imagePlan>>

\* the catch block of the submit handler, for the run in slot i
EvaluateCatch(i, d, message, outcome) ==
  /\ dom' = showErrorState(d, EvaluationPrefix \o message)
  /\ evalReq' = [evalReq EXCEPT ![i] = IdleEval]
  /\ evalResult' = "Failure"
  /\ settled' = outcome

\* fetch('/evaluate') settles: it rejects, or resolves with a status
EvaluateFetchSettles(i) ==
  /\ evalReq[i].pc = "fetch"
  /\ \/ \E message \in TransportMessages :
          EvaluateCatch(i, dom, message,
            [NothingSettled EXCEPT !.result = "Failure", !.via = "transport"])
     \/ \E status \in Statuses :
          /\ evalReq' = [evalReq EXCEPT ![i] =
               [pc |-> IF ResponseOk(status) THEN "okjson" ELSE "errjson", status |-> status]]
          /\ settled' = NothingSettled
          /\ UNCHANGED <<dom, evalResult>>
  /\ alertShown' = ""
  /\ fileSelected' = NoFile
  /\ critique' = NoCritique
  /\ regenSettled' = NothingRegenerated
  /\ UNCHANGED <<imageFile, currentRefinementPlan, regenReq, evaluateCalls,
                 regenerateCalls, lastReceivedPlan, rendered, imagePlan>>

\* response.json() of a non-2xx response settles
EvaluateErrorBody(i) ==
  /\ evalReq[i].pc = "errjson"
  /\ LET outcome == [NothingSettled EXCEPT !.result = "Failure", !.via = "response",
                                           !.status = evalReq[i].status]
     IN \/ EvaluateCatch(i, dom, ParseMessage, outcome)
        \/ \E errorData \in ErrorBodies :
             EvaluateCatch(i, dom, ErrorMessage(evalReq[i].status, errorData),
               [outcome EXCEPT !.parsed = TRUE, !.body = errorData])
  /\ alertShown' = ""
  /\ fileSelected' = NoFile
  /\ critique' = NoCritique
  /\ regenSettled' = NothingRegenerated
  /\ UNCHANGED <<imageFile, currentRefinementPlan, regenReq, evaluateCalls,
                 regenerateCalls, lastReceivedPlan, rendered, imagePlan>>

\* response.json() of a 2xx response settles, and the critique is rendered
EvaluateOkBody(i) ==
  /\ evalReq[i].pc = "okjson"
  /\ LET outcome == [NothingSettled EXCEPT !.result = "Failure", !.via = "response",
                                           !.status = evalReq[i].status]
     IN \/ /\ EvaluateCatch(i, dom, ParseMessage, outcome)
           /\ critique' = NoCritique
           /\ UNCHANGED <<currentRefinementPlan, lastReceivedPlan, rendered, regenReq>>
        \/ \E data \in EvaluateBodies :
             LET r == displayCritiqueResults(dom, currentRefinementPlan, data)
             IN /\ currentRefinementPlan' = r.plan
                /\ lastReceivedPlan' = IF data.isNull THEN lastReceivedPlan
                                       ELSE data.refinement_plan
                /\ rendered' = (rendered \/ ~r.threw)
                /\ critique' = IF r.threw THEN NoCritique ELSE data
                /\ regenReq' = [j \in Slots |->
                     IF regenReq[j].pc # "idle" /\ ~data.isNull
                     THEN [regenReq[j] EXCEPT !.overtaken = TRUE] ELSE regenReq[j]]
                /\ IF r.threw
                   THEN EvaluateCatch(i, r.dom, r.message, [outcome EXCEPT !.parsed = TRUE])
                   ELSE /\ dom' = r.dom
                        /\ evalReq' = [evalReq EXCEPT ![i] = IdleEval]
                        /\ evalResult' = "Success"
                        /\ settled' = [outcome EXCEPT !.result = "Success", !.parsed = TRUE]
  /\ alertShown' = ""
  /\ fileSelected' = NoFile
  /\ regenSettled' = NothingRegenerated
  /\ UNCHANGED <<imageFile, evaluateCalls, regenerateCalls, imagePlan>>

\* ----------------------------------------------------------- regeneration
RegeneratePrompt == "No refinement plan available to generate from."

\* a guard that compares with null instead of testing truthiness
RegenerateRefused_OnlyNull(plan) == plan.kind = "null"

\* the guard of the regenerate handler: !currentRefinementPlan
RegenerateRefused(plan) == ~Truthy(plan)

\* lines 89-93 without the statement that disables the control
RegenerateStart_LeavesEnabled(d) ==
  [d EXCEPT !.regenLoader = "flex", !.regenImage = "none"]

\* regenerate handler lines 89-93
RegenerateStart(d) ==
  [d EXCEPT !.regenLoader = "flex", !.regenImage = "none", !.regenerateDisabled = TRUE]

\* a finally block that hides the loader but leaves the control disabled
RegenerateFinally_LeavesDisabled(d) ==
  [d EXCEPT !.regenLoader = "none"]

\* the finally block of the regenerate handler
RegenerateFinally(d) ==
  [d EXCEPT !.regenLoader = "none", !.regenerateDisabled = FALSE]

\* a body assembled by concatenation instead of JSON.stringify
RegenerateBody_Concatenated(plan) == "{\"refinement_plan\":\"" \o plan.str \o "\"}"

\* the body option of fetch('/regenerate')
RegenerateBody(plan) == JSONStringify(plan)

\* regenerateButton 'click' listener up to the first await; a hidden or
\* disabled button takes no click
RegenerateClick ==
  /\ dom.regenerateButton # "none"
  /\ ~dom.regenerateDisabled
  /\ IF RegenerateRefused(currentRefinementPlan)
     THEN /\ alertShown' = RegeneratePrompt
          /\ UNCHANGED <<dom, regenReq, regenerateCalls>>
     ELSE /\ evaluateCalls + regenerateCalls < MaxRequests
          /\ \E i \in Slots : regenReq[i].pc = "idle"
          /\ dom' = RegenerateStart(dom)
          /\ regenReq' = [regenReq EXCEPT ![FreeSlot(regenReq)] =
               [pc |-> "fetch", status |-> 0, body |-> RegenerateBody(currentRefinementPlan),
                received |-> lastReceivedPlan, overtaken |-> FALSE]]
          /\ regenerateCalls' = regenerateCalls + 1
          /\ alertShown' = ""
  /\ fileSelected' = NoFile
  /\ settled' = NothingSettled
  /\ critique' = NoCritique
  /\ regenSettled' = NothingRegenerated
  /\ UNCHANGED <<imageFile, currentRefinementPlan, evalReq, evaluateCalls,
                 evalResult, lastReceivedPlan, rendered, imagePlan>>

\* what no piece of the regenerate handler after its first await touches
RegenerateFrame ==
  /\ alertShown' = ""
  /\ fileSelected' = NoFile
  /\ settled' = NothingSettled
  /\ critique' = NoCritique
  /\ UNCHANGED <<imageFile, currentRefinementPlan, evalReq, evaluateCalls,
                 regenerateCalls, evalResult, lastReceivedPlan, rendered>>

\* fetch('/regenerate') settles: it rejects (catch, finally), or resolves
RegenerateFetchSettles(i) ==
  /\ regenReq[i].pc = "fetch"
  /\ \/ \E message \in TransportMessages :
          /\ dom' = RegenerateFinally(dom)
          /\ regenReq' = [regenReq EXCEPT ![i] = IdleRegen]
          /\ regenSettled' = RegenerationFailed
     \/ \E status \in Statuses :
          /\ regenReq' = [regenReq EXCEPT ![i].pc =
               IF ResponseOk(status) THEN "okjson" ELSE "errjson", ![i].status = status]
          /\ regenSettled' = NothingRegenerated
          /\ UNCHANGED dom
  /\ UNCHANGED imagePlan
  /\ RegenerateFrame

\* response.json() of a non-2xx response settles: every outcome is thrown,
\* logged and followed by the finally block
RegenerateErrorBody(i) ==
  /\ regenReq[i].pc = "errjson"
  /\ dom' = RegenerateFinally(dom)
  /\ regenReq' = [regenReq EXCEPT ![i] = IdleRegen]
  /\ regenSettled' = RegenerationFailed
  /\ UNCHANGED imagePlan
  /\ RegenerateFrame

\* response.json() of a 2xx response settles: parse failure or a null body
\* is thrown and logged, any other body is displayed; then the finally block
RegenerateOkBody(i) ==
  /\ regenReq[i].pc = "okjson"
  /\ \/ /\ dom' = RegenerateFinally(dom)
        /\ regenSettled' = RegenerationFailed
        /\ UNCHANGED imagePlan
     \/ \E data \in RegenerateBodies :
          IF data.isNull
          THEN /\ dom' = RegenerateFinally(dom)
               /\ regenSettled' = RegenerationFailed
               /\ UNCHANGED imagePlan
          ELSE /\ dom' = RegenerateFinally(
                           displayRegeneratedImage(dom, data.regenerated_image_url))
               /\ regenSettled' = [result |-> "Success", url |-> data.regenerated_image_url]
               /\ imagePlan' = [plan |-> regenReq[i].received,
                                overtaken |-> regenReq[i].overtaken]
  /\ regenReq' = [regenReq EXCEPT ![i] = IdleRegen]
  /\ RegenerateFrame

\* ---------------------------------------------------------- specification
Next ==
  \/ PickerChange
  \/ Drop
  \/ SubmitClick
  \/ \E i \in Slots : EvaluateFetchSettles(i)
  \/ \E i \in Slots : EvaluateErrorBody(i)
  \/ \E i \in Slots : EvaluateOkBody(i)
  \/ RegenerateClick
  \/ \E i \in Slots : RegenerateFetchSettles(i)
  \/ \E i \in Slots : RegenerateErrorBody(i)
  \/ \E i \in Slots : RegenerateOkBody(i)

Spec == Init /\ [][Next]_vars

\* --------------------------------------------------- the renderer on its own
\* displayCritiqueResults applied once to a well-formed critique whose overall
\* score runs over the whole grid; the four dimension scores follow from it
ProbeBody(score) ==
  [isNull |-> FALSE, brand_name |-> Str("Nike"), original_image |-> Str("data:p"),
   refinement_plan |-> Str("planP"),
   scorecard |-> [present |-> TRUE, overall_score |-> score,
                  dims |-> <<Dim(IF score >= 300 THEN score - 300 ELSE score + 300, "p1"),
                             Dim(MaxScore - score, "p2"),
                             Dim(score \div 2, "p3"),
                             Dim((score + MaxScore) \div 2, "p4")>>,
                  strengths |-> Str("array"), items |-> <<"bold logo">>]]

ScoreInit ==
  /\ imageFile = NoFile
  /\ currentRefinementPlan = Null
  /\ dom = InitialDom
  /\ evalReq = [i \in Slots |-> IdleEval]
  /\ regenReq = [i \in Slots |-> IdleRegen]
  /\ evaluateCalls = 0
  /\ regenerateCalls = 0
  /\ evalResult = "none"
  /\ lastReceivedPlan = Null
  /\ rendered = FALSE
  /\ alertShown = ""
  /\ fileSelected = NoFile
  /\ settled = NothingSettled
  /\ \E score \in 0..MaxScore : critique = ProbeBody(score)
  /\ regenSettled = NothingRegenerated
  /\ imagePlan = NoImagePlan

\* one call displayCritiqueResults(data) on the page as served
ProbeRender ==
  /\ ~rendered
  /\ LET r == displayCritiqueResults(dom, currentRefinementPlan, critique)
     IN /\ ~r.threw
        /\ dom' = r.dom
        /\ currentRefinementPlan' = r.plan
        /\ lastReceivedPlan' = critique.refinement_plan
  /\ rendered' = TRUE
  /\ evalResult' = "Success"
  /\ settled' = [NothingSettled EXCEPT !.result = "Success", !.via = "response",
                                       !.status = 200, !.parsed = TRUE]
  /\ UNCHANGED <<imageFile, evalReq, regenReq, evaluateCalls, regenerateCalls,
                 alertShown, fileSelected, critique, regenSettled, imagePlan>>

ScoreNext == ProbeRender

ScoreSpec == ScoreInit /\ [][ScoreNext]_vars

\* ------------------------------------------------- every request settles
\* The browser settles every fetch() and every response.json() promise it
\* has issued for /regenerate, and runs the continuation of the handler
FairSpec ==
  /\ Spec
  /\ \A i \in Slots : /\ WF_vars(RegenerateFetchSettles(i))
                      /\ WF_vars(RegenerateErrorBody(i))
                      /\ WF_vars(RegenerateOkBody(i))

\* ------------------------------------------------------------ properties
\* the state of the evaluation machine of the page
EvalState ==
  IF EvalPending # {} THEN "Submitting"
  ELSE IF evalResult = "none" THEN "Idle"
  ELSE evalResult

RejectionText == "Please select a valid image file."
ImageTypes == {"image/png"}

\* C1: at most one /evaluate request is in flight at any time.
C1_SingleEvaluateInFlight == Cardinality(EvalPending) <= 1

\* C2: at most one /regenerate request is in flight at any time, and the
\* regeneration control is disabled for as long as one is.
C2_SingleRegenerateInFlight ==
  /\ Cardinality(RegenPending) <= 1
  /\ RegenPending # {} => dom.regenerateDisabled

\* an evaluation has just succeeded and shown the control again while a
\* regeneration is pending
C2_Witness ==
  /\ RegenPending # {}
  /\ settled.result = "Success"
  /\ dom.regenerateButton = "block"
  /\ dom.regenerateDisabled

\* C3: a /regenerate request has only been issued once some evaluation has
\* succeeded; no step taken while no plan is retained issues one, and a
\* regeneration click made then raises the prompt and changes nothing else.
C3_RegenerateNeedsPlan ==
  /\ [](regenerateCalls > 0 => rendered)
  /\ [][~Truthy(currentRefinementPlan)
          => (regenerateCalls' = regenerateCalls
              /\ Cardinality(RegenPending') <= Cardinality(RegenPending))]_vars
  /\ [][alertShown' = RegeneratePrompt
          => (~Truthy(currentRefinementPlan) /\ regenerateCalls' = regenerateCalls
              /\ regenReq' = regenReq /\ dom' = dom)]_vars

\* a click on the shown control was refused for want of a plan
C3_Witness ==
  /\ dom.regenerateButton = "block"
  /\ ~Truthy(currentRefinementPlan)
  /\ alertShown = RegeneratePrompt
  /\ regenerateCalls = 0

C5_SubmitWithoutFileRefused ==
  /\ [][~imageFile.present
          => (evaluateCalls' = evaluateCalls
              /\ Cardinality(EvalPending') <= Cardinality(EvalPending))]_vars
  /\ [][alertShown' = SubmitPrompt
          => /\ ~imageFile.present
             /\ evaluateCalls' = evaluateCalls
             /\ evalReq' = evalReq
             /\ evalResult' = evalResult
             /\ dom' = dom
             /\ currentRefinementPlan' = currentRefinementPlan]_vars

\* a submit click was refused for want of a candidate
C5_Witness ==
  /\ ~imageFile.present
  /\ alertShown = SubmitPrompt
  /\ evaluateCalls = 0

\* C6: right after a file is selected, an image is stored, named and
\* submittable, and any other file leaves no candidate, the rejection text
\* and submission disabled; from the first selection on, submission is
\* enabled iff a candidate is stored.
C6_IntakeInStep ==
  /\ dom.fileName # "" => (~dom.submitDisabled <=> imageFile.present)
  /\ fileSelected.present =>
       IF fileSelected.type \in ImageTypes
       THEN imageFile = fileSelected /\ dom.fileName = fileSelected.name
            /\ ~dom.submitDisabled
       ELSE imageFile = NoFile /\ dom.fileName = RejectionText /\ dom.submitDisabled

\* a non-image has just been selected after an image had been submitted
C6_Witness ==
  /\ fileSelected.type = "text/plain"
  /\ evaluateCalls > 0
  /\ imageFile = NoFile
  /\ dom.submitDisabled

\* C7: after a non-2xx /evaluate response the error text carries the
\* supplied detail, else the generic message with the status code; the
\* transport message appears only when the request itself failed.
C7_FailureMessage ==
  /\ (settled.via = "response" /\ ~ResponseOk(settled.status)) =>
       dom.placeholderText = EvaluationPrefix \o
         (IF settled.parsed /\ ~settled.body.isNull /\ settled.body.detail.kind = "string"
             /\ settled.body.detail.str # ""
          THEN settled.body.detail.str
          ELSE "HTTP error! Status: " \o ToString(settled.status))
  /\ (settled.result = "Failure"
      /\ dom.placeholderText \in {EvaluationPrefix \o m : m \in TransportMessages})
       => settled.via = "transport"

\* C8: while the error panel is shown, the busy indicator, the results
\* content and the images section are hidden.
C8_FailureShowsNoResults ==
  (dom.resultsPlaceholder # "none" /\ dom.placeholderTitle = "Analysis Failed") =>
    /\ dom.loader = "none"
    /\ dom.resultsContent = "none"
    /\ dom.imagesSection = "none"

\* C9: the retained plan changes only in a step that ends an evaluation in
\* Success.
C9_PlanChangedOnlyBySuccess ==
  [][currentRefinementPlan' # currentRefinementPlan => settled'.result = "Success"]_vars

\* C10: the regeneration control is hidden while the evaluation machine is
\* Idle, Submitting or Failure, and while it is shown the retained plan is
\* the one of the critique received last.
C10_ControlOnlyAfterSuccess ==
  /\ EvalState \in {"Idle", "Submitting", "Failure"} => dom.regenerateButton = "none"
  /\ dom.regenerateButton # "none" =>
       (Truthy(lastReceivedPlan) => Truthy(currentRefinementPlan))

\* the three-tier reference, as a relation between a displayed color and a score
TierMatches(color, score) ==
  /\ (color = "var(--success-color)") <=> (score >= 800)
  /\ (color = "var(--warning-color)") <=> (score >= 500 /\ score < 800)
  /\ (color = "var(--danger-color)") <=> (score < 500)

\* C11: every score shown is classified by the three-tier reference: the
\* overall score and each of the four dimension cards are favorable exactly
\* when the score is at least 0.8, caution exactly when it is at least 0.5
\* and below 0.8, unfavorable exactly when it is below 0.5
C11_ScoreClassification ==
  settled.result = "Success" =>
    /\ TierMatches(dom.overallScoreColor, critique.scorecard.overall_score)
    /\ Len(dom.scorecardContainer) = 4
    /\ \A i \in 1..4 :
         TierMatches(dom.scorecardContainer[i].color, critique.scorecard.dims[i].score)
C11_Witness ==
  /\ settled.result = "Success"
  /\ critique.scorecard.overall_score = 800
  /\ dom.overallScoreColor = "var(--success-color)"
  /\ critique.scorecard.dims[1].score = 500
  /\ dom.scorecardContainer[1].color = "var(--warning-color)"

\* C12: the busy indicator is visible in exactly the states where an /evaluate
\* request is in flight, and while one is in flight the results placeholder,
\* the results content, the images section and the regeneration control are
\* hidden
C12_BusyWhileEvaluating ==
  /\ (dom.loader # "none") <=> (EvalPending # {})
  /\ EvalPending # {} =>
       /\ dom.resultsPlaceholder = "none"
       /\ dom.resultsContent = "none"
       /\ dom.imagesSection = "none"
       /\ dom.regenerateButton = "none"

\* C13: from the accepted regenerate click until the /regenerate request
\* settles the regeneration loader is visible and the control disabled; the
\* callback that settles it, after success and after every failure alike,
\* hides the loader, re-enables the control and issues no request; and a
\* request in flight always leads to such a settled state
C13_RegenerationSettles ==
  /\ [](RegenPending # {} => dom.regenLoader = "flex" /\ dom.regenerateDisabled)
  /\ [](regenSettled.result # "none" =>
         RegenPending = {} /\ dom.regenLoader = "none" /\ ~dom.regenerateDisabled)
  /\ [][Cardinality(RegenPending') < Cardinality(RegenPending) =>
          /\ regenSettled'.result # "none"
          /\ regenerateCalls' = regenerateCalls
          /\ evaluateCalls' = evaluateCalls]_vars
  /\ (RegenPending # {}) ~>
       (RegenPending = {} /\ dom.regenLoader = "none" /\ ~dom.regenerateDisabled)
C13_Witness ==
  /\ regenSettled.result = "Failure"
  /\ regenerateCalls = 2
  /\ dom.regenLoader = "none"
  /\ ~dom.regenerateDisabled

\* C14: in the state a successful /regenerate response leaves, the display
\* image's source is exactly the regenerated_image_url of that response
\* (whatever source an earlier regeneration left), the image is visible, and
\* the regeneration loader and placeholder are hidden
C14_ImageSwap ==
  regenSettled.result = "Success" =>
    /\ regenSettled.url.kind = "string" => dom.regenImageSrc = regenSettled.url.str
    /\ dom.regenImage = "block"
    /\ dom.regenLoader = "none"
    /\ dom.regenPlaceholder = "none"
C14_Witness ==
  /\ regenSettled.result = "Success"
  /\ regenerateCalls = 2
  /\ regenSettled.url = Str("https://x/z.png")
  /\ dom.regenImageSrc = "https://x/z.png"
  /\ dom.regenImage = "block"

\* C15: in the state an evaluation Success leaves, the regenerated image is
\* hidden and its placeholder is shown, also when a regenerated image had been
\* displayed before
C15_RenderResetsRegenerated ==
  settled.result = "Success" =>
    dom.regenImage = "none" /\ dom.regenPlaceholder = "flex"
C15_Witness ==
  /\ settled.result = "Success"
  /\ imagePlan # NoImagePlan
  /\ dom.regenImageSrc = "https://x/y.png"
  /\ dom.regenImage = "none"
  /\ dom.regenPlaceholder = "flex"

\* what displayCritiqueResults writes from the critique
RenderedValues(d) ==
  [originalImageSrc |-> d.originalImageSrc, resultsTitle |-> d.resultsTitle,
   overallScore |-> d.overallScore, overallScoreColor |-> d.overallScoreColor,
   scorecardContainer |-> d.scorecardContainer, strengthsList |-> d.strengthsList,
   refinementPlanText |-> d.refinementPlanText]

\* C16: rendering does not accumulate: in the state an evaluation Success
\* leaves, whatever was rendered before (the same critique, another one, or a
\* partly rendered one), the displayed values are those of rendering that
\* critique once on the page as served, with exactly four dimension cards
\* under the four titles and no strengths but those of that critique
C16_RenderIdempotent ==
  settled.result = "Success" =>
    /\ RenderedValues(dom) =
         RenderedValues(displayCritiqueResults(InitialDom, Null, critique).dom)
    /\ Len(dom.scorecardContainer) = 4
    /\ \A i \in 1..4 : dom.scorecardContainer[i].title = Titles[i]
    /\ Len(critique.scorecard.items) > 0 => dom.strengthsList = critique.scorecard.items
    /\ currentRefinementPlan = critique.refinement_plan
C16_Witness ==
  /\ settled.result = "Success"
  /\ evaluateCalls = 2
  /\ regenerateCalls = 1
  /\ critique.refinement_plan = Str("planA")
  /\ Len(dom.scorecardContainer) = 4
  /\ dom.strengthsList = <<"bold logo", "clear CTA">>

\* C17: in the state an evaluation Success leaves, the strengths panel is
\* never empty: it holds exactly the one fixed fallback line when the
\* strengths array of the critique is missing or empty, and otherwise exactly
\* the strengths of the critique, in order, one entry each
C17_StrengthsNeverEmpty ==
  settled.result = "Success" =>
    /\ Len(dom.strengthsList) >= 1
    /\ IF critique.scorecard.strengths.kind = "undefined" \/ critique.scorecard.items = <<>>
       THEN dom.strengthsList = <<"No specific strengths identified.">>
       ELSE dom.strengthsList = critique.scorecard.items
C17_Witness ==
  /\ settled.result = "Success"
  /\ critique.scorecard.strengths = Undefined
  /\ dom.strengthsList = <<"No specific strengths identified.">>

\* C18: whenever the regenerated image is visible, the request that produced
\* it carried the refinement plan currently retained
C18_ImageFromRetainedPlan ==
  dom.regenImage # "none" => imagePlan.plan = currentRefinementPlan

\* C18, amended: whenever the regenerated image is visible, the request that
\* produced it carried the refinement plan currently retained, unless a 2xx
\* /evaluate body was handed to the renderer while that request was in flight
C18_ImageFromPlanUnlessOvertaken ==
  dom.regenImage # "none" =>
    imagePlan.plan = currentRefinementPlan \/ imagePlan.overtaken
C18_Witness ==
  /\ dom.regenImage = "block"
  /\ ~imagePlan.overtaken
  /\ imagePlan.plan = Str("planA")
  /\ currentRefinementPlan = Str("planA")
  /\ evaluateCalls = 2
  /\ EvalPending = {}

\* C19: in every state where a critique is displayed and no /regenerate
\* request is in flight, exactly one of the regenerated-image placeholder and
\* the regenerated image is visible
C19_PaneNeverBlank ==
  (dom.resultsContent # "none" /\ dom.imagesSection # "none" /\ RegenPending = {}) =>
    ((dom.regenImage # "none") # (dom.regenPlaceholder # "none"))

====
